---- MODULE Spec2Model ----
(***************************************************************************)
(* A model of app.py, the Streamlit script "Lebanon Water - Springs &      *)
(* Network".  One run of the script is a straight line of steps (load,     *)
(* derive geography, normalise names, resolve columns, clean numbers,      *)
(* sidebar filters, sorting controls, spring chart, network chart); a      *)
(* st.stop() ends the run early.  A widget change or a reload reruns the    *)
(* script from the top over the memoized raw table.                        *)
(*                                                                         *)
(* Text is a sequence of tokens: a token is a maximal run of characters    *)
(* other than the separators " " and "_", and each separator is a token of *)
(* its own.  A missing cell (NaN) of a text column is the one-token text   *)
(* NA.  Cells of the numeric columns are records (kind, value).  Spring    *)
(* values of the aggregated table are kept in hundredths and network       *)
(* shares in tenths of a percent, the precisions the script rounds to.     *)
(***************************************************************************)
EXTENDS Integers, Sequences, FiniteSets, TLC

VARIABLES
    file,       \* water_resources.csv on disk: readable or not, header, rows
    cache,      \* st.cache_data memo of load_csv
    build,      \* how the installed sort orders rows of equal key
    pc,         \* position of the running script
    df,         \* the data frame: its columns and its rows
    cols,       \* HAS_TOWN and the resolved COL_* names
    ui,         \* the values read from the sidebar widgets in this run
    data,       \* rows left after the area-profile and area-selection filters
    spr,        \* the spring table handed to the pyramid chart
    net_pct,    \* the share table handed to the network chart
    out,        \* what the page shows: charts rendered, messages raised
    later       \* history: this run follows an earlier run of the session

vars == <<file, cache, build, pc, df, cols, ui, data, spr, net_pct, out, later>>

-----------------------------------------------------------------------------
(* Bounds of the model *)

MaxRows == 2

-----------------------------------------------------------------------------
(* Text helpers *)

SP == " "
US == "_"

NA == <<"<NA>">>

IsStr(s) == s # NA

\* The tokens of the model in code-point order, the order Python compares text in.
Alphabet ==
    << " ", "-", "A", "Akkar", "Aley", "B", "Baabda", "Baalbek",
       "Baalbek-Hermel", "Batroun", "Bcharre", "Beirut", "Bekaa", "Beqaa",
       "Bint", "Byblos", "C", "Chouf", "Danniyeh", "District", "El",
       "Governorate", "Hasbaya", "Hermel", "Jbail", "Jbeil", "Jezzine",
       "Keserwan", "Koura", "Lebanon", "Marjeyoun", "Matn", "Metn", "Minieh",
       "Minieh-Danniyeh", "Minieh{em-dash}Danniyeh",
       "Miniyeh{mojibake}Danniyeh", "Miniyeh{a-circ}Danniyeh",
       "Miniyeh{em-dash}Danniyeh", "Mount", "Nabatieh", "North", "Rachaya",
       "Saida", "Sidon", "Sour", "South", "Tripoli", "Tyre", "West", "Zahle",
       "Zahl{mojibake}", "Zahl{e-acute}", "Zgharta", "_", "nan", "<NA>" >>

Rank(tok) == CHOOSE i \in 1..Len(Alphabet) : Alphabet[i] = tok

\* a < b as Python compares two str values
RECURSIVE LessStr(_, _)
LessStr(a, b) ==
    IF b = <<>> THEN FALSE
    ELSE IF a = <<>> THEN TRUE
    ELSE IF Head(a) # Head(b) THEN Rank(Head(a)) < Rank(Head(b))
    ELSE LessStr(Tail(a), Tail(b))

RECURSIVE LStrip(_)
LStrip(s) == IF s # <<>> /\ Head(s) = SP THEN LStrip(Tail(s)) ELSE s

RECURSIVE RStrip(_)
RStrip(s) ==
    IF s # <<>> /\ s[Len(s)] = SP THEN RStrip(SubSeq(s, 1, Len(s) - 1)) ELSE s

\* str.strip()
Strip(s) == RStrip(LStrip(s))

\* str.replace(a, b) for one-character a and b
ReplaceTok(s, a, b) == [i \in 1..Len(s) |-> IF s[i] = a THEN b ELSE s[i]]

\* re.sub(r"\s+", " ", s)
RECURSIVE CollapseSpaces(_)
CollapseSpaces(s) ==
    IF Len(s) < 2 THEN s
    ELSE IF s[1] = SP /\ s[2] = SP THEN CollapseSpaces(Tail(s))
    ELSE <<Head(s)>> \o CollapseSpaces(Tail(s))

\* Replace gone wrong: a key is matched inside a cell (regex=True), not against
\* the whole cell
ReplacePartial(table, s) ==
    LET Starts(k) == Len(k) <= Len(s) /\ SubSeq(s, 1, Len(k)) = k
    IN  IF \E k \in DOMAIN table : Starts(k)
        THEN LET k == CHOOSE k \in DOMAIN table : Starts(k)
             IN  table[k] \o SubSeq(s, Len(k) + 1, Len(s))
        ELSE s

\* Series.replace(dict): a cell equal to a key becomes the key's value
Replace(table, s) == IF s \in DOMAIN table THEN table[s] ELSE s

\* the elements of a sequence
Range(q) == {q[i] : i \in DOMAIN q}

-----------------------------------------------------------------------------
(* parse_ref_area and the static tables of the script *)

\* parse_ref_area gone wrong: the underscores of the name are kept
parse_ref_area_keep_underscores(s) ==
    IF ~IsStr(s) THEN <<NA, "Other">>
    ELSE LET t == Strip(s)
             n == Len(t)
         IN  IF n >= 2 /\ t[n - 1] = US /\ t[n] \in {"Governorate", "District"}
             THEN <<Strip(SubSeq(t, 1, n - 2)), t[n]>>
             ELSE <<Strip(s), "Other">>

parse_ref_area(s) ==
    IF ~IsStr(s) THEN <<NA, "Other">>
    ELSE LET t == Strip(s)
             n == Len(t)
         IN  IF n >= 2 /\ t[n - 1] = US /\ t[n] \in {"Governorate", "District"}
             THEN <<Strip(ReplaceTok(SubSeq(t, 1, n - 2), US, SP)), t[n]>>
             ELSE <<Strip(ReplaceTok(s, US, SP)), "Other">>

gov_std ==
    (<<"North">> :> <<"North", SP, "Lebanon">>) @@
    (<<"South">> :> <<"South", SP, "Lebanon">>) @@
    (<<"Beqaa">> :> <<"Bekaa">>)

TARGET_MINIEH == <<"Minieh", SP, "-", SP, "Danniyeh">>

DISTRICT_ALIASES ==
    (<<"Miniyeh{a-circ}Danniyeh">> :> TARGET_MINIEH) @@
    (<<"Miniyeh{em-dash}Danniyeh">> :> TARGET_MINIEH) @@
    (<<"Minieh-Danniyeh">> :> TARGET_MINIEH) @@
    (<<"Miniyeh{mojibake}Danniyeh">> :> TARGET_MINIEH) @@
    (<<"Minieh{em-dash}Danniyeh">> :> TARGET_MINIEH) @@
    (<<"Zahl{mojibake}">> :> <<"Zahle">>) @@
    (<<"Zahl{e-acute}">> :> <<"Zahle">>) @@
    (<<"Bint", SP, "Jbail">> :> <<"Bint", SP, "Jbeil">>) @@
    (<<"Jbeil">> :> <<"Byblos">>) @@
    (<<"Saida">> :> <<"Sidon">>) @@
    (<<"Sour">> :> <<"Tyre">>)

GOV_BUCKET ==
    (<<"Beirut">> :> "Urban") @@
    (<<"Mount", SP, "Lebanon">> :> "Urban") @@
    (<<"North", SP, "Lebanon">> :> "Urban") @@
    (<<"Bekaa">> :> "Rural/Agri") @@
    (<<"Baalbek-Hermel">> :> "Rural/Agri") @@
    (<<"Nabatieh">> :> "Rural/Agri") @@
    (<<"El", SP, "Nabatieh">> :> "Rural/Agri") @@
    (<<"Akkar">> :> "Rural/Agri") @@
    (<<"South", SP, "Lebanon">> :> "Rural/Agri")

URBAN_DISTRICTS ==
    { <<"Tripoli">>, <<"Sidon">>, <<"Tyre">>, <<"Baabda">>, <<"Metn">>,
      <<"Aley">>, <<"Keserwan">>, <<"Chouf">>, <<"Zahle">>, <<"Byblos">>,
      <<"Matn">>, <<"Jbeil">> }

RURAL_DISTRICTS ==
    { <<"Baalbek">>, <<"Hermel">>, <<"West", SP, "Bekaa">>, <<"Rachaya">>,
      <<"Bint", SP, "Jbeil">>, <<"Marjeyoun">>, <<"Hasbaya">>, <<"Jezzine">>,
      TARGET_MINIEH, <<"Bcharre">>, <<"Koura">>, <<"Batroun">>, <<"Zgharta">>,
      <<"Akkar">> }

\* str(cell): NaN prints as "nan"
StrOf(s) == IF IsStr(s) THEN s ELSE <<"nan">>

\* dict.get(key, default)
Get(table, key, default) == IF key \in DOMAIN table THEN table[key] ELSE default

Cell(row, c, default) == IF c \in DOMAIN row THEN row[c] ELSE default

area_bucket(row, level) ==
    LET g == Strip(StrOf(Cell(row, <<"GovernorateName">>, <<>>)))
        d == Strip(StrOf(Cell(row, <<"DistrictName">>, <<>>)))
    IN  IF level = "Governorate" THEN Get(GOV_BUCKET, g, "Rural/Agri")
        ELSE IF d \in URBAN_DISTRICTS THEN "Urban"
        ELSE IF d \in RURAL_DISTRICTS THEN "Rural/Agri"
        ELSE Get(GOV_BUCKET, g, "Rural/Agri")

-----------------------------------------------------------------------------
(* Column names.  A header is one token, possibly with blanks around it. *)

C_GOV    == <<"GovernorateName">>
C_DIST   == <<"DistrictName">>
C_REF    == <<"refArea">>
C_TOWN   == <<"Town">>
C_ANAME  == <<"AreaName">>
C_ATYPE  == <<"AreaType">>
C_BUCKET == <<"AreaBucket">>

PERM_CANDS ==
    << <<"Total number of permanent water springs">>, <<"Permanent springs">>,
       <<"Permanent">> >>
SEAS_CANDS ==
    << <<"Total number of seasonal water springs">>, <<"Seasonal springs">>,
       <<"Seasonal">> >>
GOOD_CANDS ==
    << <<"State of the water network - good">>, <<"Good %">>, <<"Good">> >>
ACC_CANDS ==
    << <<"State of the water network - acceptable">>, <<"Acceptable %">>,
       <<"Acceptable">> >>
BAD_CANDS ==
    << <<"State of the water network - bad">>, <<"Bad %">>, <<"Bad">> >>

\* None, the value of first_present when no candidate is a column
None == <<>>

first_present(columns, cands) ==
    IF \E i \in DOMAIN cands : cands[i] \in columns
    THEN cands[CHOOSE i \in DOMAIN cands :
                 /\ cands[i] \in columns
                 /\ \A j \in 1..(i - 1) : cands[j] \notin columns]
    ELSE None

-----------------------------------------------------------------------------
(* Cells of the numeric columns *)

Num(n) == [k |-> "num", v |-> n]
Txt == [k |-> "text", v |-> 0]      \* text that is no number
NaNCell == [k |-> "nan", v |-> 0]   \* an empty cell

\* pd.to_numeric(cell, errors="coerce")
to_numeric(c) == IF c.k = "num" THEN c ELSE NaNCell

\* fillna gone wrong: the empty cells are left as they are
fillna0_skipped(c) == c

\* fillna(0)
fillna0(c) == IF c.k = "nan" THEN Num(0) ELSE c

-----------------------------------------------------------------------------
(* The files the model reads: a header out of Schemas over rows out of Pool *)

Pool ==
    << [ref |-> <<"North", US, "Governorate", SP>>, gov |-> <<"North">>,
        dist |-> <<"Sour">>, town |-> <<"A">>,
        perm |-> Num(2), seas |-> Num(1),
        good |-> Num(1), acc |-> Num(0), bad |-> Num(1)],
       [ref |-> <<"Mount", US, "Lebanon", US, "Governorate">>, gov |-> <<"Akkar">>,
        dist |-> <<"Koura">>, town |-> <<"B", SP, SP, "C">>,
        perm |-> Num(1), seas |-> Num(2),
        good |-> Num(0), acc |-> Num(0), bad |-> Num(0)],
       [ref |-> <<"Sour", US, "District">>, gov |-> <<"North", SP, "Lebanon">>,
        dist |-> <<"Tyre">>, town |-> <<SP, "A">>,
        perm |-> Txt, seas |-> NaNCell,
        good |-> Num(2), acc |-> Num(1), bad |-> Num(0)],
       [ref |-> NA, gov |-> <<"North">>,
        dist |-> <<"Jbeil">>, town |-> NA,
        perm |-> Num(-1), seas |-> Num(3),
        good |-> Num(0), acc |-> NaNCell, bad |-> Num(3)],
       [ref |-> <<"Akkar">>, gov |-> NA,
        dist |-> NA, town |-> <<"C">>,
        perm |-> Num(3), seas |-> Num(0),
        good |-> Num(1), acc |-> Num(1), bad |-> Num(1)],
       [ref |-> <<US, "District">>, gov |-> <<"Beirut">>,
        dist |-> <<"Bint", SP, "Jbail">>, town |-> <<"B">>,
        perm |-> Num(0), seas |-> Num(0),
        good |-> Txt, acc |-> Num(0), bad |-> Num(0)] >>

\* the field of a pool row that a header names
FieldOf(h) ==
    LET c == Strip(h)
    IN  CASE c = C_GOV -> "gov"
          [] c = C_DIST -> "dist"
          [] c = C_REF -> "ref"
          [] c = C_TOWN -> "town"
          [] c \in Range(PERM_CANDS) -> "perm"
          [] c \in Range(SEAS_CANDS) -> "seas"
          [] c \in Range(GOOD_CANDS) -> "good"
          [] c \in Range(ACC_CANDS) -> "acc"
          [] c \in Range(BAD_CANDS) -> "bad"

Schemas ==
    { \* named geography, towns, springs and the three network columns
      {C_GOV, C_DIST, C_TOWN, PERM_CANDS[1], SEAS_CANDS[1],
       GOOD_CANDS[1], ACC_CANDS[1], BAD_CANDS[1]},
      \* refArea only, a padded header, the second spellings
      {C_REF, <<SP, "Town">>, PERM_CANDS[2], SEAS_CANDS[2],
       GOOD_CANDS[2], ACC_CANDS[2], BAD_CANDS[2]},
      \* no towns, one network column of three, the third spellings
      {C_GOV, C_DIST, PERM_CANDS[3], SEAS_CANDS[3], GOOD_CANDS[3]},
      \* GovernorateName beside refArea, no DistrictName
      {C_GOV, C_REF, C_TOWN, PERM_CANDS[1], SEAS_CANDS[3],
       GOOD_CANDS[1], ACC_CANDS[1], BAD_CANDS[1]},
      \* no seasonal springs column
      {C_GOV, C_DIST, C_TOWN, PERM_CANDS[1],
       GOOD_CANDS[1], ACC_CANDS[1], BAD_CANDS[1]},
      \* no geography at all
      {C_TOWN, PERM_CANDS[1], SEAS_CANDS[1]} }

\* the row choices of a file: 1..MaxRows pool rows in pool order
RowPicks ==
    UNION { { p \in [1..n -> DOMAIN Pool] :
                \A i \in 1..(n - 1) : p[i] <= p[i + 1] } : n \in 1..MaxRows }

CsvRow(schema, r) == [h \in schema |-> r[FieldOf(h)]]

Files ==
    { [ok |-> FALSE, cols |-> {}, rows |-> <<>>] } \cup
    { [ok |-> TRUE, cols |-> schema,
       rows |-> [i \in DOMAIN p |-> CsvRow(schema, Pool[p[i]])]] :
      schema \in Schemas, p \in RowPicks }

NoFrame == [cols |-> {}, rows |-> <<>>]
NoCache == [hit |-> FALSE, cols |-> {}, rows |-> <<>>]
NoCols  == [HAS_TOWN |-> FALSE, PERM |-> None, SEAS |-> None,
            GOOD |-> None, ACC |-> None, BAD |-> None]
NoUi    == [group_level |-> "", area_choice |-> "", pick_areas |-> {},
            display_mode |-> "", sort_opt |-> "", ascending |-> FALSE,
            top_n_pyr |-> 0, net_sort_opt |-> "", net_ascending |-> FALSE,
            top_n_net |-> 0]
NoOut   == [pyramid |-> FALSE, network |-> FALSE, message |-> ""]

\* the tie orders an installed sort_values(kind="quicksort") can have
Builds == {"keeps ties", "reverses ties"}

Init ==
    /\ file \in Files
    /\ cache = NoCache
    /\ build \in Builds
    /\ pc = "load"
    /\ df = NoFrame
    /\ cols = NoCols
    /\ ui = NoUi
    /\ data = <<>>
    /\ spr = <<>>
    /\ net_pct = <<>>
    /\ out = NoOut
    /\ later = FALSE

\* st.stop() after a message
Stop(msg) ==
    /\ pc' = "halted"
    /\ out' = [out EXCEPT !.message = msg]

-----------------------------------------------------------------------------
(* Lines 19-29: load_csv behind st.cache_data, then strip the header *)

StripColumns(row) ==
    [h \in {Strip(c) : c \in DOMAIN row} |->
        row[CHOOSE c \in DOMAIN row : Strip(c) = h]]

\* the memo gone wrong: st.cache_resource hands out the memoized frame itself,
\* so what the script does to df in place is done to the memo
cache_resource(memo, frame) ==
    [hit |-> memo.hit, cols |-> frame.cols, rows |-> frame.rows]

\* the memo after the script has changed df in place: st.cache_data hands
\* every call a copy of the memoized frame, so the memo stays as it was
cache_data(memo, frame) == memo

LoadCsv ==
    /\ pc = "load"
    /\ cache.hit \/ file.ok
    /\ LET raw == IF cache.hit THEN [cols |-> cache.cols, rows |-> cache.rows]
                  ELSE [cols |-> file.cols, rows |-> file.rows]
       IN  /\ df' = [cols |-> {Strip(c) : c \in raw.cols},
                     rows |-> [i \in DOMAIN raw.rows |-> StripColumns(raw.rows[i])]]
           /\ cache' = cache_data([hit |-> TRUE, cols |-> raw.cols,
                                   rows |-> raw.rows], df')
    /\ pc' = "geography"
    /\ UNCHANGED <<later, file, build, cols, ui, data, spr, net_pct, out>>

LoadFail ==
    /\ pc = "load"
    /\ ~cache.hit /\ ~file.ok
    /\ Stop("Could not load water_resources.csv")
    /\ UNCHANGED <<later, file, cache, build, df, cols, ui, data, spr, net_pct>>

-----------------------------------------------------------------------------
(* Lines 43-56: GovernorateName and DistrictName from refArea *)

NeedsDerivation == C_GOV \notin df.cols \/ C_DIST \notin df.cols

DeriveRow(row) ==
    LET p == parse_ref_area(row[C_REF])
        derived == {C_ANAME, C_ATYPE, C_GOV, C_DIST}
    IN  [h \in DOMAIN row \cup derived |->
            CASE h = C_ANAME -> p[1]
              [] h = C_ATYPE -> p[2]
              [] h = C_GOV ->
                    IF p[2] = "Governorate" THEN p[1] ELSE Cell(row, C_GOV, NA)
              [] h = C_DIST ->
                    IF p[2] = "District" THEN p[1] ELSE Cell(row, C_DIST, NA)
              [] OTHER -> row[h]]

DeriveGeography ==
    /\ pc = "geography"
    /\ ~NeedsDerivation \/ C_REF \in df.cols
    /\ df' = IF NeedsDerivation
             THEN [cols |-> df.cols \cup {C_ANAME, C_ATYPE, C_GOV, C_DIST},
                   rows |-> [i \in DOMAIN df.rows |-> DeriveRow(df.rows[i])]]
             ELSE df
    /\ pc' = "normalize"
    /\ cache' = cache_data(cache, df')
    /\ UNCHANGED <<later, file, build, cols, ui, data, spr, net_pct, out>>

GeographyFail ==
    /\ pc = "geography"
    /\ NeedsDerivation /\ C_REF \notin df.cols
    /\ Stop("cannot determine geography")
    /\ UNCHANGED <<later, file, cache, build, df, cols, ui, data, spr, net_pct>>

-----------------------------------------------------------------------------
(* Lines 58-80: town text and the two alias tables *)

NormalizeTown(t) == CollapseSpaces(Strip(StrOf(t)))

NormalizeRow(row) ==
    [h \in DOMAIN row |->
        CASE h = C_TOWN -> NormalizeTown(row[h])
          [] h = C_GOV -> Replace(gov_std, row[h])
          [] h = C_DIST -> Replace(DISTRICT_ALIASES, row[h])
          [] OTHER -> row[h]]

Normalize ==
    /\ pc = "normalize"
    /\ cols' = [cols EXCEPT !.HAS_TOWN = C_TOWN \in df.cols]
    /\ df' = [df EXCEPT !.rows = [i \in DOMAIN df.rows |-> NormalizeRow(df.rows[i])]]
    /\ pc' = "resolve"
    /\ cache' = cache_data(cache, df')
    /\ UNCHANGED <<later, file, build, ui, data, spr, net_pct, out>>

-----------------------------------------------------------------------------
(* Lines 82-102: resolve the spring and network columns, coerce their cells *)

Resolved ==
    [cols EXCEPT !.PERM = first_present(df.cols, PERM_CANDS),
                 !.SEAS = first_present(df.cols, SEAS_CANDS),
                 !.GOOD = first_present(df.cols, GOOD_CANDS),
                 !.ACC = first_present(df.cols, ACC_CANDS),
                 !.BAD = first_present(df.cols, BAD_CANDS)]

\* the springs check gone wrong: "and" where "or" was meant
SpringsMissingBoth == Resolved.PERM = None /\ Resolved.SEAS = None

SpringsMissing == Resolved.PERM = None \/ Resolved.SEAS = None

\* the columns the coercion loop touches
NumericCols(c) == ({c.PERM, c.SEAS, c.GOOD, c.ACC, c.BAD} \ {None}) \cap df.cols

Coerce(cell) == fillna0(to_numeric(cell))

CleanRow(row, numeric) ==
    [h \in DOMAIN row |-> IF h \in numeric THEN Coerce(row[h]) ELSE row[h]]

ResolveAndClean ==
    /\ pc = "resolve"
    /\ ~SpringsMissing
    /\ cols' = Resolved
    /\ df' = [df EXCEPT !.rows =
                [i \in DOMAIN df.rows |-> CleanRow(df.rows[i], NumericCols(Resolved))]]
    /\ pc' = "filters"
    /\ cache' = cache_data(cache, df')
    /\ UNCHANGED <<later, file, build, ui, data, spr, net_pct, out>>

SpringsFail ==
    /\ pc = "resolve"
    /\ SpringsMissing
    /\ cols' = [Resolved EXCEPT !.GOOD = None, !.ACC = None, !.BAD = None]
    /\ Stop("Missing spring columns (permanent/seasonal)")
    /\ UNCHANGED <<later, file, cache, build, df, ui, data, spr, net_pct>>

-----------------------------------------------------------------------------
(* Lines 147-180: aggregation level, area profile, area selection *)

Levels == {"Governorate", "District"}
Profiles == {"All areas", "Urban only", "Agriculture/Rural only"}

GROUP_COL(level) == IF level = "Governorate" THEN C_GOV ELSE C_DIST

WithBucket(rows, level) ==
    [i \in DOMAIN rows |->
        [h \in DOMAIN rows[i] \cup {C_BUCKET} |->
            IF h = C_BUCKET THEN area_bucket(rows[i], level) ELSE rows[i][h]]]

data0(rows, choice) ==
    IF choice = "All areas" THEN rows
    ELSE LET keep == IF choice = "Urban only" THEN "Urban" ELSE "Rural/Agri"
         IN  SelectSeq(rows, LAMBDA r : r[C_BUCKET] = keep)

\* areas_all gone wrong: NaN and empty names are offered too
areas_all_keep_missing(rows, level) ==
    { r[GROUP_COL(level)] : r \in Range(rows) }

\* the names behind sorted(...): not NaN, not empty
areas_all(rows, level) ==
    { r[GROUP_COL(level)] : r \in Range(rows) } \ {NA, <<>>}

Selected(rows, level, pick) ==
    SelectSeq(rows, LAMBDA r : r[GROUP_COL(level)] \in pick)

NoAreasMatch ==
    /\ pc = "filters"
    /\ \E level \in Levels, choice \in Profiles :
         LET rows == WithBucket(df.rows, level)
         IN  /\ areas_all(data0(rows, choice), level) = {}
             /\ df' = [cols |-> df.cols \cup {C_BUCKET}, rows |-> rows]
             /\ ui' = [ui EXCEPT !.group_level = level, !.area_choice = choice]
    /\ Stop("No areas match the area profile")
    /\ cache' = cache_data(cache, df')
    /\ UNCHANGED <<later, file, build, cols, data, spr, net_pct>>

NoAreasSelected ==
    /\ pc = "filters"
    /\ \E level \in Levels, choice \in Profiles :
         LET rows == WithBucket(df.rows, level)
         IN  /\ areas_all(data0(rows, choice), level) # {}
             /\ df' = [cols |-> df.cols \cup {C_BUCKET}, rows |-> rows]
             /\ ui' = [ui EXCEPT !.group_level = level, !.area_choice = choice]
    /\ Stop("No areas selected")
    /\ cache' = cache_data(cache, df')
    /\ UNCHANGED <<later, file, build, cols, data, spr, net_pct>>

SelectAreas ==
    /\ pc = "filters"
    /\ \E level \in Levels, choice \in Profiles :
         LET rows == WithBucket(df.rows, level)
             all == areas_all(data0(rows, choice), level)
         IN  \E pick \in (SUBSET all) \ {{}} :
               LET chosen == Selected(data0(rows, choice), level, pick)
               IN  /\ df' = [cols |-> df.cols \cup {C_BUCKET}, rows |-> rows]
                   /\ ui' = [ui EXCEPT !.group_level = level,
                                       !.area_choice = choice,
                                       !.pick_areas = pick]
                   /\ data' = chosen
                   /\ IF chosen = <<>>
                      THEN Stop("No rows after filtering")
                      ELSE pc' = "controls" /\ out' = out
    /\ cache' = cache_data(cache, df')
    /\ UNCHANGED <<later, file, build, cols, spr, net_pct>>

-----------------------------------------------------------------------------
(* Lines 182-224: display mode and the sorting controls *)

Modes == {"Totals", "Per-town average"}
SortOpts == {"Total springs", "Seasonal only", "Permanent only"}
NetSortOpts == {"Good %", "Bad %", "Acceptable %"}

\* safe_topn_slider gone wrong: the slider runs one past the number of items
safe_topn_slider_one_more(n_items) == 1..(n_items + 1)

\* the values the slider of safe_topn_slider can return for n_items > 0
safe_topn_slider(n_items) == 1..n_items

Controls ==
    /\ pc = "controls"
    /\ LET n == Cardinality(ui.pick_areas)
       IN  IF n <= 0
           THEN Stop("Nothing to rank for the current filter") /\ ui' = ui
           ELSE /\ \E mode \in Modes, so \in SortOpts, asc \in BOOLEAN,
                     tp \in safe_topn_slider(n), nso \in NetSortOpts,
                     nasc \in BOOLEAN, tn \in safe_topn_slider(n) :
                       ui' = [ui EXCEPT !.display_mode = mode, !.sort_opt = so,
                                        !.ascending = asc, !.top_n_pyr = tp,
                                        !.net_sort_opt = nso,
                                        !.net_ascending = nasc, !.top_n_net = tn]
                /\ pc' = "pyramid"
                /\ out' = out
    /\ UNCHANGED <<later, file, cache, build, df, cols, data, spr, net_pct>>

-----------------------------------------------------------------------------
(* Numbers of the aggregated tables *)

\* np.nan in a numeric column of an aggregated table
NaN == -1000000

\* round(2) keeps hundredths: spring values are held as hundredths
Hundredths == 100

\* "* 100" then round(1): shares are held as tenths of a percent
Percent == 100
Tenths == 10

\* num / den for den # 0, rounded half to even as numpy rounds
RoundDiv(num, den) ==
    LET n == IF den < 0 THEN 0 - num ELSE num
        d == IF den < 0 THEN 0 - den ELSE den
        q == n \div d
        r == n % d
    IN  IF 2 * r < d THEN q
        ELSE IF 2 * r > d THEN q + 1
        ELSE IF q % 2 = 0 THEN q ELSE q + 1

Add(x, y) == IF x = NaN \/ y = NaN THEN NaN ELSE x + y

\* Series.replace(0, np.nan)
ZeroToNaN(x) == IF x = 0 THEN NaN ELSE x

RECURSIVE SumCol(_, _)
SumCol(rows, c) ==
    IF rows = <<>> THEN 0 ELSE Head(rows)[c].v + SumCol(Tail(rows), c)

\* the names of a set in ascending order
SortedNames(S) ==
    [i \in 1..Cardinality(S) |->
        CHOOSE a \in S : Cardinality({b \in S : LessStr(b, a)}) = i - 1]

\* groupby(col): the sorted keys, NaN keys dropped
GroupKeys(rows, g) == SortedNames({r[g] : r \in Range(rows)} \ {NA})

Group(rows, g, key) == SelectSeq(rows, LAMBDA r : r[g] = key)

\* Towns gone wrong: count() where nunique() was meant
TownsCounted(rows, g, key) == Len(Group(rows, g, key))

\* groupby(col)["Town"].nunique()
Towns(rows, g, key) ==
    Cardinality({r[C_TOWN] : r \in Range(Group(rows, g, key))} \ {NA})

\* sort_values(by, ascending=asc): NaN keys last, rows of equal key in the
\* order the installed sort leaves them
SortValues(rows, keys, asc, ties) ==
    LET Before(i, j) ==
            IF keys[j] = NaN THEN keys[i] # NaN \/ i < j
            ELSE IF keys[i] = NaN THEN FALSE
            ELSE IF keys[i] # keys[j]
                 THEN (IF asc THEN keys[i] < keys[j] ELSE keys[i] > keys[j])
            ELSE IF ties = "keeps ties" THEN i < j ELSE i > j
        Place(i) == 1 + Cardinality({j \in DOMAIN rows : j # i /\ Before(j, i)})
    IN  [p \in DOMAIN rows |-> rows[CHOOSE i \in DOMAIN rows : Place(i) = p]]

\* DataFrame.tail(n) for n >= 1
TailN(rows, n) ==
    IF n >= Len(rows) THEN rows ELSE SubSeq(rows, Len(rows) - n + 1, Len(rows))

-----------------------------------------------------------------------------
(* Lines 231-293: the spring table and the pyramid chart *)

PerTown(total, towns) ==
    IF ZeroToNaN(towns) = NaN THEN NaN ELSE RoundDiv(total * Hundredths, towns)

SpringRow(rows, g, key, c, averaged) ==
    LET perm == SumCol(Group(rows, g, key), c.PERM)
        seas == SumCol(Group(rows, g, key), c.SEAS)
        p == IF averaged THEN PerTown(perm, Towns(rows, g, key))
             ELSE perm * Hundredths
        s == IF averaged THEN PerTown(seas, Towns(rows, g, key))
             ELSE seas * Hundredths
    IN  [area |-> key, perm |-> p, seas |-> s, total |-> Add(p, s)]

\* spr before it is sorted: one row per group, in group-by order
SpringTable(rows, g, c, mode) ==
    LET keys == GroupKeys(rows, g)
        averaged == mode = "Per-town average" /\ c.HAS_TOWN
    IN  [i \in DOMAIN keys |-> SpringRow(rows, g, keys[i], c, averaged)]

SpringKey(row, sort_opt) ==
    CASE sort_opt = "Total springs" -> row.total
      [] sort_opt = "Seasonal only" -> row.seas
      [] sort_opt = "Permanent only" -> row.perm

SortedSprings(table, sort_opt, asc, ties) ==
    SortValues(table, [i \in DOMAIN table |-> SpringKey(table[i], sort_opt)],
               asc, ties)

Pyramid ==
    /\ pc = "pyramid"
    /\ spr' = TailN(SortedSprings(SpringTable(data, GROUP_COL(ui.group_level),
                                              cols, ui.display_mode),
                                  ui.sort_opt, ui.ascending, build),
                    ui.top_n_pyr)
    /\ out' = [out EXCEPT !.pyramid = TRUE]
    /\ pc' = "network"
    /\ UNCHANGED <<later, file, cache, build, df, cols, ui, data, net_pct>>

-----------------------------------------------------------------------------
(* Lines 336-375: the share table and the network chart *)

HasNetwork(c) == c.GOOD # None /\ c.ACC # None /\ c.BAD # None

Share(v, row_sum) ==
    IF ZeroToNaN(row_sum) = NaN THEN NaN
    ELSE RoundDiv(v * Percent * Tenths, row_sum)

NetRow(rows, g, key, c) ==
    LET good == SumCol(Group(rows, g, key), c.GOOD)
        acc == SumCol(Group(rows, g, key), c.ACC)
        bad == SumCol(Group(rows, g, key), c.BAD)
        row_sum == good + acc + bad
    IN  [area |-> key, good |-> Share(good, row_sum),
         acc |-> Share(acc, row_sum), bad |-> Share(bad, row_sum)]

\* net_pct before it is sorted
NetTable(rows, g, c) ==
    LET keys == GroupKeys(rows, g)
    IN  [i \in DOMAIN keys |-> NetRow(rows, g, keys[i], c)]

NetKey(row, net_sort_opt) ==
    CASE net_sort_opt = "Good %" -> row.good
      [] net_sort_opt = "Bad %" -> row.bad
      [] net_sort_opt = "Acceptable %" -> row.acc

SortedNet(table, net_sort_opt, asc, ties) ==
    SortValues(table, [i \in DOMAIN table |-> NetKey(table[i], net_sort_opt)],
               asc, ties)

Network ==
    /\ pc = "network"
    /\ HasNetwork(cols)
    /\ net_pct' = TailN(SortedNet(NetTable(data, GROUP_COL(ui.group_level), cols),
                                  ui.net_sort_opt, ui.net_ascending, build),
                        ui.top_n_net)
    /\ out' = [out EXCEPT !.network = TRUE]
    /\ pc' = "done"
    /\ UNCHANGED <<later, file, cache, build, df, cols, ui, data, spr>>

NetworkDisabled ==
    /\ pc = "network"
    /\ ~HasNetwork(cols)
    /\ out' = [out EXCEPT !.message = "Network condition columns not found"]
    /\ pc' = "done"
    /\ UNCHANGED <<later, file, cache, build, df, cols, ui, data, spr, net_pct>>

-----------------------------------------------------------------------------
(* A widget change or a reload runs the script again from the top *)

Rerun ==
    /\ pc \in {"done", "halted"}
    /\ pc' = "load"
    /\ df' = NoFrame
    /\ cols' = NoCols
    /\ ui' = NoUi
    /\ data' = <<>>
    /\ spr' = <<>>
    /\ net_pct' = <<>>
    /\ out' = NoOut
    /\ UNCHANGED <<later, file, cache, build>>

Next ==
    \/ LoadCsv \/ LoadFail
    \/ DeriveGeography \/ GeographyFail
    \/ Normalize
    \/ ResolveAndClean \/ SpringsFail
    \/ NoAreasMatch \/ NoAreasSelected \/ SelectAreas
    \/ Controls
    \/ Pyramid
    \/ Network \/ NetworkDisabled
    \/ Rerun

Spec == Init /\ [][Next]_vars

-----------------------------------------------------------------------------
(* The same script with reruns recorded: a history variable the script     *)
(* does not read, kept to tell a later run of a session from its first.    *)

RerunRecorded ==
    /\ pc \in {"done", "halted"}
    /\ pc' = "load"
    /\ df' = NoFrame
    /\ cols' = NoCols
    /\ ui' = NoUi
    /\ data' = <<>>
    /\ spr' = <<>>
    /\ net_pct' = <<>>
    /\ out' = NoOut
    /\ later' = TRUE
    /\ UNCHANGED <<file, cache, build>>

NextRuns ==
    \/ LoadCsv \/ LoadFail
    \/ DeriveGeography \/ GeographyFail
    \/ Normalize
    \/ ResolveAndClean \/ SpringsFail
    \/ NoAreasMatch \/ NoAreasSelected \/ SelectAreas
    \/ Controls
    \/ Pyramid
    \/ Network \/ NetworkDisabled
    \/ RerunRecorded

SpecRuns == Init /\ [][NextRuns]_vars

-----------------------------------------------------------------------------
(* Properties *)

\* the grouping column of the running script
G == GROUP_COL(ui.group_level)

\* the aggregated tables of the current run before sort_values
Springs == SpringTable(data, G, cols, ui.display_mode)
Shares == NetTable(data, G, cols)

\* the numbers x with a value (not NaN) and at least y
AtLeast(x, y) == x # NaN /\ (y = NaN \/ x >= y)

\* the stages after the coercion loop, the filters and the controls
Cleaned == pc \in {"filters", "controls", "pyramid", "network", "done"}
Filtered == pc \in {"controls", "pyramid", "network", "done"}
Ranked == pc \in {"pyramid", "network", "done"}

\* the file's cell of row i under the header that strips to h
FileCols == {Strip(c) : c \in file.cols}
FileHas(h) == h \in file.cols \/ \E c \in file.cols : Strip(c) = h
FileCell(i, h) ==
    IF h \in file.cols THEN file.rows[i][h]
    ELSE file.rows[i][CHOOSE c \in file.cols : Strip(c) = h]

\* C1: the rows kept by the top-N window are the N rows with the largest
\* sort-key values, for every sort key, every N and both directions: no row
\* left out of a chart has a larger key than a row kept in it.
C1_WindowKeepsLargest ==
    /\ out.pyramid =>
         \A k \in Range(spr) : \A d \in Range(Springs) \ Range(spr) :
            AtLeast(SpringKey(k, ui.sort_opt), SpringKey(d, ui.sort_opt))
    /\ out.network =>
         \A k \in Range(net_pct) : \A d \in Range(Shares) \ Range(net_pct) :
            AtLeast(NetKey(k, ui.net_sort_opt), NetKey(d, ui.net_sort_opt))

\* C2: the top-N values offered lie in 1..G, where G is the number of picked
\* areas and the number of rows of each aggregated table when its chart is
\* computed, each windowed chart table has at most G and at least min(N, G)
\* rows, and the slider never stops the run.
C2_WindowSize ==
    LET n == Cardinality(ui.pick_areas)
        Min(a, b) == IF a < b THEN a ELSE b
    IN  /\ Ranked => ui.top_n_pyr \in 1..n /\ ui.top_n_net \in 1..n
        /\ pc = "pyramid" => Len(Springs) = n
        /\ pc = "network" /\ HasNetwork(cols) => Len(Shares) = n
        /\ out.pyramid =>
            Len(spr) <= n /\ Len(spr) >= Min(ui.top_n_pyr, n)
        /\ out.network =>
            Len(net_pct) <= n /\ Len(net_pct) >= Min(ui.top_n_net, n)
        /\ out.message # "Nothing to rank for the current filter"

\* C2 witness: both charts are drawn and a window cuts the table short
C2_Witness ==
    /\ pc = "done" /\ out.pyramid /\ out.network
    /\ ui.top_n_pyr < Cardinality(ui.pick_areas)
    /\ Len(spr) = ui.top_n_pyr
    /\ Len(net_pct) = ui.top_n_net

\* the summed good + acceptable + bad of a group of the current run
NetTotal(area) ==
    SumCol(Group(data, G, area), cols.GOOD) + SumCol(Group(data, G, area), cols.ACC)
        + SumCol(Group(data, G, area), cols.BAD)

\* C3: a group whose summed good + acceptable + bad is zero never appears in
\* the table handed to the network chart, and no row of it has NaN shares.
C3_ZeroTotalDropped ==
    out.network =>
        \A r \in Range(net_pct) :
            /\ NetTotal(r.area) # 0
            /\ r.good # NaN /\ r.acc # NaN /\ r.bad # NaN

\* C4 as claimed: after the cleaning step every cell of every resolved numeric
\* column is a number and is >= 0.
C4_NonNegativeAfterCleaning ==
    Cleaned =>
        \A i \in DOMAIN df.rows : \A h \in NumericCols(cols) :
            df.rows[i][h].k = "num" /\ df.rows[i][h].v >= 0

\* C4 as amended: after the cleaning step every cell of every resolved
\* numeric column is a number: 0 where the file's cell was empty or no number,
\* and the file's number, negative ones included, everywhere else.
C4_NumbersAfterCleaning ==
    Cleaned =>
        \A h \in NumericCols(cols) : \A i \in DOMAIN df.rows :
            LET cell == FileCell(i, h)
            IN  /\ df.rows[i][h].k = "num"
                /\ df.rows[i][h].v = IF cell.k = "num" THEN cell.v ELSE 0

\* C4 witness: cleaning met an empty cell, a text cell and a negative number
C4_Witness ==
    /\ Cleaned
    /\ \E i \in DOMAIN df.rows : \E h \in NumericCols(cols) :
          FileCell(i, h).k = "nan" /\ df.rows[i][h] = Num(0)
    /\ \E i \in DOMAIN df.rows : \E h \in NumericCols(cols) :
          FileCell(i, h).k = "text" /\ df.rows[i][h] = Num(0)
    /\ \E i \in DOMAIN df.rows : \E h \in NumericCols(cols) :
          df.rows[i][h].v < 0

\* the stages after the alias tables were applied
Normalized ==
    /\ pc \notin {"load", "geography", "normalize"}
    /\ out.message \notin {"Could not load water_resources.csv",
                           "cannot determine geography"}

\* the name of row i at one level before the alias table was applied to it
NameBefore(i, level) ==
    IF C_ATYPE \in df.cols /\ df.rows[i][C_ATYPE] = level
    THEN df.rows[i][C_ANAME]
    ELSE IF FileHas(GROUP_COL(level)) THEN FileCell(i, GROUP_COL(level))
    ELSE NA

\* C5: alias normalization is idempotent: no value of gov_std or of
\* DISTRICT_ALIASES is a key of its table, every governorate and district
\* name of the normalized frame, missing ones included, is left as it is by a
\* second application, and a name that is no key came through unchanged.
C5_AliasIdempotent ==
    /\ \A k \in DOMAIN gov_std : Replace(gov_std, gov_std[k]) = gov_std[k]
    /\ \A k \in DOMAIN DISTRICT_ALIASES :
          Replace(DISTRICT_ALIASES, DISTRICT_ALIASES[k]) = DISTRICT_ALIASES[k]
    /\ Normalized =>
          \A i \in DOMAIN df.rows :
             /\ Replace(gov_std, df.rows[i][C_GOV]) = df.rows[i][C_GOV]
             /\ Replace(DISTRICT_ALIASES, df.rows[i][C_DIST]) = df.rows[i][C_DIST]
             /\ NameBefore(i, "Governorate") \notin DOMAIN gov_std
                   => df.rows[i][C_GOV] = NameBefore(i, "Governorate")
             /\ NameBefore(i, "District") \notin DOMAIN DISTRICT_ALIASES
                   => df.rows[i][C_DIST] = NameBefore(i, "District")

\* C5 witness: a governorate alias and a district alias were replaced and an
\* unknown spelling was kept
C5_Witness ==
    /\ Normalized
    /\ \E i \in DOMAIN df.rows :
          /\ NameBefore(i, "Governorate") \in DOMAIN gov_std
          /\ df.rows[i][C_GOV] = gov_std[NameBefore(i, "Governorate")]
    /\ \E i \in DOMAIN df.rows :
          /\ NameBefore(i, "District") \in DOMAIN DISTRICT_ALIASES
          /\ df.rows[i][C_DIST] = DISTRICT_ALIASES[NameBefore(i, "District")]
    /\ \E i \in DOMAIN df.rows :
          /\ NameBefore(i, "Governorate") \notin DOMAIN gov_std \cup {NA}
          /\ df.rows[i][C_GOV] = NameBefore(i, "Governorate")

\* C6: ranking is a stable sort: two groups with equal sort-key values stand
\* in a chart's table in group-by order, alphabetical by area name, for every
\* sort key and direction.
C6_StableRanking ==
    /\ out.pyramid =>
         \A i, j \in DOMAIN spr :
            i < j /\ SpringKey(spr[i], ui.sort_opt) = SpringKey(spr[j], ui.sort_opt)
               => LessStr(spr[i].area, spr[j].area)
    /\ out.network =>
         \A i, j \in DOMAIN net_pct :
            i < j /\ NetKey(net_pct[i], ui.net_sort_opt)
                        = NetKey(net_pct[j], ui.net_sort_opt)
               => LessStr(net_pct[i].area, net_pct[j].area)

\* the rows of the current run's data in one area, and their distinct towns
RowsOf(area) == {i \in DOMAIN data : data[i][G] = area}
TownsOf(area) == {data[i][C_TOWN] : i \in RowsOf(area)}

\* x, in hundredths, is total / n rounded to two decimals, undefined for n = 0
IsAverage(x, total, n) ==
    LET diff == x * n - total * Hundredths
    IN  IF n = 0 THEN x = NaN
        ELSE x # NaN /\ 2 * diff <= n /\ 2 * diff >= 0 - n

NoGeography ==
    (C_GOV \notin FileCols \/ C_DIST \notin FileCols) /\ C_REF \notin FileCols

\* the area names left by the area profile of the current run
Remaining ==
    {r[G] : r \in Range(data0(df.rows, ui.area_choice))} \ {NA, <<>>}

\* the filters of the current run have been read
FiltersRead == ui.group_level # ""

\* C8: each fatal condition (the file cannot be loaded, no geography can be
\* determined, no areas or rows are left by the area profile and the area
\* selection) halts the run, a halted run has drawn no chart and draws none,
\* and a chart is drawn only in a run without any of these conditions.
C8_FatalHalts ==
    /\ ~file.ok /\ pc # "load" => pc = "halted"
    /\ file.ok /\ NoGeography /\ pc \notin {"load", "geography"} => pc = "halted"
    /\ FiltersRead /\ (Remaining = {} \/ ui.pick_areas = {}) => pc = "halted"
    /\ pc = "halted" =>
          /\ ~out.pyramid /\ ~out.network
          /\ ~ENABLED Pyramid /\ ~ENABLED Network
    /\ out.pyramid \/ out.network =>
          /\ file.ok /\ ~NoGeography
          /\ Remaining # {} /\ ui.pick_areas # {} /\ data # <<>>

\* C8 witness: the area profile left no area and the run is halted
C8_Witness ==
    /\ pc = "halted" /\ FiltersRead /\ Remaining = {}
    /\ ui.area_choice # "All areas"
    /\ ~out.pyramid /\ ~out.network

FileSpringsMissing ==
    \/ first_present(FileCols, PERM_CANDS) = None
    \/ first_present(FileCols, SEAS_CANDS) = None

FileNetworkMissing ==
    \/ first_present(FileCols, GOOD_CANDS) = None
    \/ first_present(FileCols, ACC_CANDS) = None
    \/ first_present(FileCols, BAD_CANDS) = None

NetworkUnavailable ==
    /\ out.pyramid /\ ~out.network
    /\ out.message = "Network condition columns not found"

\* C9 as claimed: a missing field family is never fatal: without the network
\* columns the network chart is reported unavailable and the spring chart is
\* drawn, and without the spring columns the run is not halted.
C9_MissingFamilyNeverFatal ==
    /\ pc = "done" /\ FileNetworkMissing => NetworkUnavailable
    /\ file.ok /\ ~NoGeography /\ FileSpringsMissing => pc # "halted"

\* C9 as amended: without the network columns the network chart is reported
\* unavailable and the spring chart is drawn; without a spring column the run
\* is halted with an error before any chart is computed.
C9_NetworkOptionalSpringsRequired ==
    /\ pc = "done" /\ FileNetworkMissing => NetworkUnavailable
    /\ pc = "network" /\ FileNetworkMissing => out.pyramid
    /\ file.ok /\ ~NoGeography /\ FileSpringsMissing
          /\ pc \notin {"load", "geography", "normalize", "resolve"}
       => /\ pc = "halted"
          /\ out.message = "Missing spring columns (permanent/seasonal)"
          /\ ~out.pyramid /\ ~out.network
          /\ spr = <<>> /\ net_pct = <<>>

\* C9 witness: a file with one network column of three ran to its end with
\* the spring chart alone
C9_Witness ==
    /\ pc = "done" /\ FileNetworkMissing /\ ~FileSpringsMissing
    /\ NetworkUnavailable /\ spr # <<>>

\* the file has refArea and neither GovernorateName nor DistrictName
RefOnly == C_REF \in FileCols /\ C_GOV \notin FileCols /\ C_DIST \notin FileCols

\* the refArea of row i ends in _level
EndsIn(i, level) ==
    LET t == Strip(FileCell(i, C_REF))
    IN  /\ IsStr(FileCell(i, C_REF))
        /\ Len(t) >= 2 /\ t[Len(t) - 1] = US /\ t[Len(t)] = level

\* what stands before the suffix, underscores replaced by spaces
PrefixName(i) ==
    LET t == Strip(FileCell(i, C_REF))
    IN  Strip(ReplaceTok(SubSeq(t, 1, Len(t) - 2), US, SP))

\* row i is among the rows the current run aggregates
Contributes(i) == df.rows[i] \in Range(data)

\* every area is let through: the All areas profile, every offered area picked
Unfiltered ==
    /\ ui.area_choice = "All areas"
    /\ ui.pick_areas = {r[G] : r \in Range(df.rows)} \ {NA, <<>>}

\* C10 as claimed: with refArea alone a row is aggregated at a level if and
\* only if its refArea ends in the level's suffix, and then in the group named
\* by the prefix with underscores replaced by spaces; rows with neither suffix
\* are in no group at either level.
C10_RefAreaGroups ==
    RefOnly /\ Filtered /\ Unfiltered =>
        \A i \in DOMAIN df.rows :
            /\ Contributes(i) <=> EndsIn(i, ui.group_level)
            /\ Contributes(i) => df.rows[i][G] = PrefixName(i)

\* C10 as amended: with refArea alone a row is aggregated at a level only if
\* its refArea ends in the level's suffix after a non-empty prefix, and then in
\* the group named by the prefix with underscores replaced by spaces and passed
\* through the level's alias table; with the All areas profile and every
\* offered area picked every such row is aggregated; rows with neither suffix
\* are in no group at either level.
C10_RefAreaGroupsAliased ==
    RefOnly /\ Filtered =>
        \A i \in DOMAIN df.rows :
            LET aliases == IF ui.group_level = "Governorate" THEN gov_std
                           ELSE DISTRICT_ALIASES
                named == EndsIn(i, ui.group_level) /\ PrefixName(i) # <<>>
            IN  /\ Contributes(i) =>
                     /\ named
                     /\ df.rows[i][G] = Replace(aliases, PrefixName(i))
                     /\ out.pyramid /\ ui.top_n_pyr = Cardinality(ui.pick_areas)
                           => \E r \in Range(spr) : r.area = df.rows[i][G]
                /\ Unfiltered => (Contributes(i) <=> named)

\* C10 witness: a North_Governorate row is aggregated as North Lebanon beside
\* a row of neither suffix that is in no group
C10_Witness ==
    /\ RefOnly /\ pc = "done" /\ ui.group_level = "Governorate"
    /\ \E i \in DOMAIN df.rows :
          /\ Contributes(i) /\ df.rows[i][G] # PrefixName(i)
          /\ \E r \in Range(spr) : r.area = df.rows[i][G]
    /\ \E i \in DOMAIN df.rows :
          /\ ~EndsIn(i, "Governorate") /\ ~EndsIn(i, "District")
          /\ ~Contributes(i)

-----------------------------------------------------------------------------
(* The run computed anew from the memoized raw table and the widget values *)

PureLoaded ==
    [cols |-> {Strip(c) : c \in cache.cols},
     rows |-> [i \in DOMAIN cache.rows |-> StripColumns(cache.rows[i])]]

PureDerived ==
    LET f == PureLoaded
    IN  IF C_GOV \notin f.cols \/ C_DIST \notin f.cols
        THEN [cols |-> f.cols \cup {C_ANAME, C_ATYPE, C_GOV, C_DIST},
              rows |-> [i \in DOMAIN f.rows |-> DeriveRow(f.rows[i])]]
        ELSE f

PureCols(present) ==
    [HAS_TOWN |-> C_TOWN \in present,
     PERM |-> first_present(present, PERM_CANDS),
     SEAS |-> first_present(present, SEAS_CANDS),
     GOOD |-> first_present(present, GOOD_CANDS),
     ACC |-> first_present(present, ACC_CANDS),
     BAD |-> first_present(present, BAD_CANDS)]

PureCleaned(f, c) ==
    LET numeric == {c.PERM, c.SEAS, c.GOOD, c.ACC, c.BAD} \ {None}
    IN  WithBucket([i \in DOMAIN f.rows |->
                        CleanRow(NormalizeRow(f.rows[i]), numeric)],
                   ui.group_level)

PureData(rows) ==
    Selected(data0(rows, ui.area_choice), ui.group_level, ui.pick_areas)

PureSpr(rows, c) ==
    TailN(SortedSprings(SpringTable(rows, G, c, ui.display_mode),
                        ui.sort_opt, ui.ascending, build),
          ui.top_n_pyr)

PureNet(rows, c) ==
    IF HasNetwork(c)
    THEN TailN(SortedNet(NetTable(rows, G, c),
                         ui.net_sort_opt, ui.net_ascending, build),
               ui.top_n_net)
    ELSE <<>>

\* what a run holds at its stages, computed anew: the frame, the resolved
\* columns and the filtered rows once the filters are read, the two chart
\* tables at the end of the run, no chart table in a run that stopped early
Recomputed ==
    /\ cache.hit => cache.cols = file.cols /\ cache.rows = file.rows
    /\ pc = "controls" =>
          LET f == PureDerived
              c == PureCols(f.cols)
              rows == PureCleaned(f, c)
          IN  /\ cols = c
              /\ df.rows = rows
              /\ data = PureData(rows)
    /\ pc = "done" =>
          /\ spr = PureSpr(data, cols)
          /\ net_pct = PureNet(data, cols)
          /\ out.pyramid
          /\ out.network <=> HasNetwork(cols)
    /\ pc = "halted" =>
          /\ spr = <<>> /\ net_pct = <<>>
          /\ ~out.pyramid /\ ~out.network

\* from the sorting controls to the end of the run the frame, the resolved
\* columns, the filtered rows and the filter values read so far stay put
Settled ==
    pc \in {"controls", "pyramid", "network"} =>
        /\ UNCHANGED <<cache, df, cols, data>>
        /\ ui'.group_level = ui.group_level
        /\ ui'.area_choice = ui.area_choice
        /\ ui'.pick_areas = ui.pick_areas
        /\ pc # "controls" => UNCHANGED ui

\* C11: whatever runs came before, the rows handed to the two charts at the
\* end of a run are the ones computed anew from the memoized raw table and
\* the widget values of this run (on one installation), a run that stops
\* early hands over no rows of an earlier run, and the memoized raw table
\* stays the table read from the file.
C11_OutputsFromTableAndFilters == []Recomputed /\ [][Settled]_vars

\* C11 witness: a later run of a session ends with both charts, windowed to
\* fewer rows than there are groups, over a frame the script has changed in
\* place since it was loaded
C11_Witness ==
    /\ pc = "done" /\ later
    /\ out.pyramid /\ out.network
    /\ Len(spr) < Cardinality(ui.pick_areas)
    /\ Len(net_pct) < Cardinality(ui.pick_areas)
    /\ df.cols # cache.cols

====
